---- MODULE Spec2Model ----
(***************************************************************************)
(* The registrations endpoint of backend/main.py: the single-slot TTL      *)
(* cache (_cache, TTL), the credential chain (sheets_service) and the      *)
(* handler (registrations), served by an asyncio event loop.               *)
(*                                                                         *)
(* Time is time.time() read in whole seconds at the instants of Instants.  *)
(* The handler is an `async def` without any `await`: once the event loop  *)
(* has entered it, no other request handler runs until it returns or       *)
(* raises.  `running` is the request whose handler the loop is inside.     *)
(* Wall-clock time passes while the handler is blocked in its calls.       *)
(***************************************************************************)
EXTENDS Integers, Sequences, FiniteSets, TLC

TTL == 30

NReq == 2
Slack == 1
MaxRows == 3

MaxBlobs == 3
MaxLimit == 2

Reqs == 1..NReq

\* The instants at which the clock is read: around 0 and around one TTL.
Instants == (0..Slack) \cup ((TTL - Slack)..(TTL + Slack))

\* What an environment variable may hold: nothing, "", a usable credential,
\* or a string whose load / decode / parse raises.
EnvVals == {"unset", "empty", "valid", "malformed"}

Envs == [file : EnvVals, b64 : EnvVals, json : EnvVals]

\* The environments the timed specification starts from: a file path that is
\* absent, usable or unusable, with or without inline JSON behind it.
TimedEnvs ==
  {e \in Envs : /\ e.file \in {"unset", "valid", "malformed"}
                /\ e.b64 = "unset"
                /\ e.json \in {"unset", "valid"}}

\* The instants of the credential specification: the first seconds only.
EarlyInstants == 0..Slack

None == [isNone |-> TRUE]

EmptyShape == [headers |-> <<>>, rows |-> <<>>, count |-> 0]

NoResp == [status |-> 0]

NoTag == [req |-> 0, at |-> 0]

\* No range read has returned to the request.
NoRead == [unread |-> TRUE]

\* No photo request has been answered.
NoPhoto == [op |-> "none"]

\* Python truthiness of a cache payload: None is falsy, a dict is truthy
\* when it has at least one key (the payload always has three).
Truthy(d) == d # None /\ Cardinality(DOMAIN d) > 0

\* `if creds_file:` -- None and "" are falsy.
Present(v) == v \notin {"unset", "empty"}

\* Row i of the upstream sheet, and the sheet's first n rows.
Row(i) == <<i>>

Sheet(n) == [i \in 1..n |-> Row(i)]

\* What the range read returns when it does not raise: a response without a
\* "values" field, or one with the first n rows.
UpstreamResponses ==
  {[hasValues |-> FALSE, values |-> <<>>]}
    \cup {[hasValues |-> TRUE, values |-> Sheet(n)] : n \in 0..MaxRows}

\* resp.get("values", [])
GetValues(resp) == IF resp.hasValues THEN resp.values ELSE <<>>

\* The shape with the header row left among the rows.
Shape_KeepsHeaderRow(values) ==
  IF values = <<>>
  THEN EmptyShape
  ELSE [headers |-> Head(values), rows |-> values, count |-> Len(values)]

\* The shape with the header row counted among the rows.
Shape_CountsHeader(values) ==
  IF values = <<>>
  THEN EmptyShape
  ELSE [headers |-> Head(values), rows |-> Tail(values), count |-> Len(values)]

\* Lines 142-147: the headers/rows/count shape of the rows read.
Shape(values) ==
  IF values = <<>>
  THEN EmptyShape
  ELSE [headers |-> Head(values), rows |-> Tail(values), count |-> Len(Tail(values))]

VARIABLES clock, sheetId, env, cache, pc, now, svc, tried, calls, out, resp,
          running, writer, freshAt, lastStatus, before, read,
          bucket, blobs, photo

\* The registrations endpoint's state, and the photo endpoints'.
regVars == <<clock, sheetId, env, cache, pc, now, svc, tried, calls, out, resp,
             running, writer, freshAt, lastStatus, before, read>>

photoVars == <<bucket, blobs, photo>>

vars == <<regVars, photoVars>>

\* The chain with the base64 variable consulted before the file path.
sheets_service_B64First(e) ==
  IF Present(e.b64)
  THEN [source |-> "b64", ok |-> e.b64 = "valid", tried |-> <<"b64">>]
  ELSE IF Present(e.file)
  THEN [source |-> "file", ok |-> e.file = "valid", tried |-> <<"file">>]
  ELSE IF Present(e.json)
  THEN [source |-> "json", ok |-> e.json = "valid", tried |-> <<"json">>]
  ELSE [source |-> "none", ok |-> FALSE, tried |-> <<>>]

\* The chain with a source that fails to load skipped for the next one.
sheets_service_Fallback(e) ==
  LET order == <<"file", "b64", "json">>
      present == SelectSeq(order, LAMBDA n : Present(e[n]))
      usable == SelectSeq(present, LAMBDA n : e[n] = "valid")
  IN  IF present = <<>>
      THEN [source |-> "none", ok |-> FALSE, tried |-> <<>>]
      ELSE IF usable = <<>>
      THEN [source |-> present[Len(present)], ok |-> FALSE, tried |-> present]
      ELSE [source |-> usable[1], ok |-> TRUE,
            tried |-> SelectSeq(present, LAMBDA n : e[n] # "valid") \o <<usable[1]>>]

\* Lines 92-116: the first source whose variable is truthy is loaded, and a
\* load that raises is not followed by another source.
sheets_service(e) ==
  IF Present(e.file)
  THEN [source |-> "file", ok |-> e.file = "valid", tried |-> <<"file">>]
  ELSE IF Present(e.b64)
  THEN [source |-> "b64", ok |-> e.b64 = "valid", tried |-> <<"b64">>]
  ELSE IF Present(e.json)
  THEN [source |-> "json", ok |-> e.json = "valid", tried |-> <<"json">>]
  ELSE [source |-> "none", ok |-> FALSE, tried |-> <<>>]

\* The exception sheets_service raises when it does not return a client.
ServiceError(res) ==
  IF res.source = "none" THEN "No Google credentials provided" ELSE "credential load failed"

\* Lines 139-140: every exception of the try block becomes this response.
FetchFailed(msg) == [status |-> 502, detail |-> msg]

Ok(body) == [status |-> 200, body |-> body]

\* The cached branch with the boundary included.
CacheHit_Inclusive(t) == Truthy(cache.data) /\ t - cache.t <= TTL

\* Line 132: the cached branch.
CacheHit(t) == Truthy(cache.data) /\ t - cache.t < TTL

\* The handler without its `if not SHEET_ID` guard.
SheetConfigured_Always == TRUE

\* Line 128: `if not SHEET_ID` -- the id read at import (line 45) is non-empty.
SheetConfigured == sheetId

\* Handlers run on threads: a request enters whatever the others are doing.
LoopIdle_Threads == TRUE

\* Line 127: the event loop enters a handler only when it is inside no other.
LoopIdle == running = 0

\* r's handler can take its next step: the loop is inside no other handler.
Inside(r) == running \in {0, r}

Tag(r) == [req |-> r, at |-> now[r]]

TypeOK ==
  /\ clock \in Instants
  /\ sheetId \in BOOLEAN
  /\ env \in Envs
  /\ cache.t \in {0} \cup Instants
  /\ pc \in [Reqs -> {"idle", "creds", "fetch", "store", "stamp", "done"}]
  /\ now \in [Reqs -> {0} \cup Instants]
  /\ calls \in [Reqs -> 0..1]
  /\ running \in 0..NReq
  /\ lastStatus \in {0, 200, 502}
  /\ freshAt \in Instants

\* Process start: lines 23 and 45, no request yet.
Started ==
  /\ clock = 0
  /\ sheetId \in BOOLEAN
  /\ cache = [t |-> 0, data |-> None]
  /\ pc = [r \in Reqs |-> "idle"]
  /\ now = [r \in Reqs |-> 0]
  /\ svc = [r \in Reqs |-> "unresolved"]
  /\ tried = [r \in Reqs |-> <<>>]
  /\ calls = [r \in Reqs |-> 0]
  /\ out = [r \in Reqs |-> None]
  /\ resp = [r \in Reqs |-> NoResp]
  /\ running = 0
  /\ writer = [t |-> NoTag, data |-> NoTag]
  /\ freshAt = 0
  /\ lastStatus = 0
  /\ before = [r \in Reqs |-> cache]
  /\ read = [r \in Reqs |-> NoRead]

\* The photo endpoints left alone: no bucket, no request.
PhotosUnused ==
  /\ bucket = FALSE
  /\ blobs = <<>>
  /\ photo = NoPhoto

Init == Started /\ env \in TimedEnvs /\ PhotosUnused

InitCreds == Started /\ env \in Envs /\ PhotosUnused

\* The handler of r returns or raises: the response goes out, the handler's
\* locals die and the loop is free again.
Finish(r, response) ==
  /\ pc' = [pc EXCEPT ![r] = "done"]
  /\ resp' = [resp EXCEPT ![r] = response]
  /\ now' = [now EXCEPT ![r] = 0]
  /\ out' = [out EXCEPT ![r] = None]
  /\ running' = 0
  /\ lastStatus' = response.status

\* Time passes, up to an instant of T.
Advance(T) ==
  /\ \E t \in T : t > clock /\ clock' = t
  /\ UNCHANGED <<sheetId, env, cache, pc, now, svc, tried, calls, out, resp,
                 running, writer, freshAt, lastStatus, before, read>>
  /\ UNCHANGED photoVars

Tick == Advance(Instants)

TickEarly == Advance(EarlyInstants)

\* Lines 128-133: a request enters the handler.
Start(r) ==
  /\ pc[r] = "idle"
  /\ LoopIdle
  /\ IF ~SheetConfigured
     THEN /\ Finish(r, Ok(EmptyShape))
          /\ UNCHANGED <<clock, sheetId, env, cache, svc, tried, calls, writer,
                         freshAt, before, read>>
     ELSE IF CacheHit(clock)
     THEN /\ Finish(r, Ok(cache.data))
          /\ UNCHANGED <<clock, sheetId, env, cache, svc, tried, calls, writer,
                         freshAt, before, read>>
     ELSE /\ now' = [now EXCEPT ![r] = clock]
          /\ before' = [before EXCEPT ![r] = cache]
          /\ pc' = [pc EXCEPT ![r] = "creds"]
          /\ running' = r
          /\ UNCHANGED <<clock, sheetId, env, cache, svc, tried, calls, out, resp,
                         writer, freshAt, lastStatus, read>>
  /\ UNCHANGED photoVars

\* Line 136: sheets_service().
Creds(r) ==
  /\ pc[r] = "creds"
  /\ Inside(r)
  /\ LET res == sheets_service(env) IN
       /\ tried' = [tried EXCEPT ![r] = res.tried]
       /\ svc' = [svc EXCEPT ![r] = res.source]
       /\ IF res.ok
          THEN /\ pc' = [pc EXCEPT ![r] = "fetch"]
               /\ UNCHANGED <<now, out, resp, running, lastStatus>>
          ELSE Finish(r, FetchFailed(ServiceError(res)))
  /\ UNCHANGED <<clock, sheetId, env, cache, calls, writer, freshAt, before, read>>
  /\ UNCHANGED photoVars

\* The range read tried a second time when it raises.
Fetch_RetriesOnce(r) ==
  /\ pc[r] = "fetch"
  /\ Inside(r)
  /\ calls' = [calls EXCEPT ![r] = calls[r] + 1]
  /\ \/ /\ IF calls[r] = 0
           THEN UNCHANGED <<pc, now, out, resp, running, lastStatus>>
           ELSE Finish(r, FetchFailed("upstream"))
        /\ UNCHANGED read
     \/ \E u \in UpstreamResponses :
          /\ out' = [out EXCEPT ![r] = Shape(GetValues(u))]
          /\ read' = [read EXCEPT ![r] = u]
          /\ pc' = [pc EXCEPT ![r] = "store"]
          /\ UNCHANGED <<now, resp, running, lastStatus>>
  /\ UNCHANGED <<clock, sheetId, env, cache, svc, tried, writer, freshAt, before>>
  /\ UNCHANGED photoVars

\* The range read with the attempt stamped into the cache when it raises.
Fetch_StampsFailure(r) ==
  /\ pc[r] = "fetch"
  /\ Inside(r)
  /\ calls' = [calls EXCEPT ![r] = calls[r] + 1]
  /\ \/ /\ Finish(r, FetchFailed("upstream"))
        /\ cache' = [cache EXCEPT !.t = now[r]]
        /\ UNCHANGED read
     \/ \E u \in UpstreamResponses :
          /\ out' = [out EXCEPT ![r] = Shape(GetValues(u))]
          /\ read' = [read EXCEPT ![r] = u]
          /\ pc' = [pc EXCEPT ![r] = "store"]
          /\ UNCHANGED <<now, resp, running, lastStatus, cache>>
  /\ UNCHANGED <<clock, sheetId, env, svc, tried, writer, freshAt, before>>
  /\ UNCHANGED photoVars

\* Lines 137-147: the range read, which raises or returns, and the mapping.
Fetch(r) ==
  /\ pc[r] = "fetch"
  /\ Inside(r)
  /\ calls' = [calls EXCEPT ![r] = calls[r] + 1]
  /\ \/ Finish(r, FetchFailed("upstream")) /\ UNCHANGED read
     \/ \E u \in UpstreamResponses :
          /\ out' = [out EXCEPT ![r] = Shape(GetValues(u))]
          /\ read' = [read EXCEPT ![r] = u]
          /\ pc' = [pc EXCEPT ![r] = "store"]
          /\ UNCHANGED <<now, resp, running, lastStatus>>
  /\ UNCHANGED <<clock, sheetId, env, cache, svc, tried, writer, freshAt, before>>
  /\ UNCHANGED photoVars

\* Line 149 followed by a suspension point: the loop leaves the handler
\* between the two stores.
StoreData_Yields(r) ==
  /\ pc[r] = "store"
  /\ Inside(r)
  /\ cache' = [cache EXCEPT !.data = out[r]]
  /\ writer' = [writer EXCEPT !.data = Tag(r)]
  /\ pc' = [pc EXCEPT ![r] = "stamp"]
  /\ running' = 0
  /\ UNCHANGED <<clock, sheetId, env, now, svc, tried, calls, out, resp,
                 freshAt, lastStatus, before, read>>
  /\ UNCHANGED photoVars

\* Line 149: _cache["data"] = out.
StoreData(r) ==
  /\ pc[r] = "store"
  /\ Inside(r)
  /\ cache' = [cache EXCEPT !.data = out[r]]
  /\ writer' = [writer EXCEPT !.data = Tag(r)]
  /\ pc' = [pc EXCEPT ![r] = "stamp"]
  /\ UNCHANGED <<clock, sheetId, env, now, svc, tried, calls, out, resp, running,
                 freshAt, lastStatus, before, read>>
  /\ UNCHANGED photoVars

\* Lines 150-151: _cache["t"] = now; return out.
StoreT(r) ==
  /\ pc[r] = "stamp"
  /\ Inside(r)
  /\ cache' = [cache EXCEPT !.t = now[r]]
  /\ writer' = [writer EXCEPT !.t = Tag(r)]
  /\ freshAt' = clock
  /\ Finish(r, Ok(out[r]))
  /\ UNCHANGED <<clock, sheetId, env, svc, tried, calls, before, read>>
  /\ UNCHANGED photoVars

\* The client has its response; the request slot is free for the next one.
Deliver(r) ==
  /\ pc[r] = "done"
  /\ pc' = [pc EXCEPT ![r] = "idle"]
  /\ resp' = [resp EXCEPT ![r] = NoResp]
  /\ svc' = [svc EXCEPT ![r] = "unresolved"]
  /\ tried' = [tried EXCEPT ![r] = <<>>]
  /\ calls' = [calls EXCEPT ![r] = 0]
  /\ before' = [before EXCEPT ![r] = [t |-> 0, data |-> None]]
  /\ read' = [read EXCEPT ![r] = NoRead]
  /\ UNCHANGED <<clock, sheetId, env, cache, now, out, running, writer, freshAt,
                 lastStatus>>
  /\ UNCHANGED photoVars

Next ==
  \/ Tick
  \/ \E r \in Reqs : Start(r)
  \/ \E r \in Reqs : Creds(r)
  \/ \E r \in Reqs : Fetch(r)
  \/ \E r \in Reqs : StoreData(r)
  \/ \E r \in Reqs : StoreT(r)
  \/ \E r \in Reqs : Deliver(r)

NextCreds ==
  \/ TickEarly
  \/ \E r \in Reqs : Start(r)
  \/ \E r \in Reqs : Creds(r)
  \/ \E r \in Reqs : Fetch(r)
  \/ \E r \in Reqs : StoreData(r)
  \/ \E r \in Reqs : StoreT(r)
  \/ \E r \in Reqs : Deliver(r)

(***************************************************************************)
(* The photo endpoints (lines 55-90).  The bucket's listing under          *)
(* "uploads/" is a sequence of blobs in listing order; a blob is a         *)
(* directory entry when its name ends in "/".  A content type is the       *)
(* sequence of its parts, so "image/png" is <<"image", "/", "png">>.       *)
(***************************************************************************)

ContentTexts ==
  { <<>>, <<"image", "/", "png">>, <<"image", "/">>, <<"image">>,
    <<"text", "/", "plain">>, <<"imagex", "/", "png">> }

\* file.content_type: None, or a string.
ContentTypes ==
  {[given |-> FALSE, text |-> <<>>]} \cup {[given |-> TRUE, text |-> t] : t \in ContentTexts}

\* The limit query parameter: any integer, 60 when not given.
Limits == (-1)..MaxLimit

\* The listings the bucket may hold at process start.
Listings ==
  UNION { { [i \in 1..n |-> [id |-> i, dir |-> d[i]]] : d \in [1..n -> BOOLEAN] }
          : n \in 0..MaxBlobs }

\* str.startswith
StartsWith(text, prefix) ==
  Len(text) >= Len(prefix) /\ SubSeq(text, 1, Len(prefix)) = prefix

\* The content-type test with a missing content type let through.
IsImage_AcceptsMissing(ct) ==
  ~ct.given \/ StartsWith(ct.text, <<"image", "/">>)

\* Line 59, negated: the content type is a non-empty string starting "image/".
IsImage(ct) ==
  ct.given /\ ct.text # <<>> /\ StartsWith(ct.text, <<"image", "/">>)

\* Line 85: the public URL of a blob.
Url(b) == b.id

\* Lines 81-87: the loop over the listing from blob i on, with urls collected
\* so far.
RECURSIVE ListLoop(_, _, _, _)
ListLoop(bs, i, urls, limit) ==
  IF i > Len(bs)
  THEN urls
  ELSE IF bs[i].dir
  THEN ListLoop(bs, i + 1, urls, limit)
  ELSE LET more == Append(urls, Url(bs[i]))
       IN  IF Len(more) >= limit THEN more ELSE ListLoop(bs, i + 1, more, limit)

InsertAt(seq, p, x) == SubSeq(seq, 1, p - 1) \o <<x>> \o SubSeq(seq, p, Len(seq))

PhotoResp(op, ct, limit, status, storage, photos) ==
  [op |-> op, ct |-> ct, limit |-> limit, status |-> status,
   storage |-> storage, photos |-> photos]

\* Process start for the photo endpoints: line 50 and whatever the bucket holds.
PhotosStarted ==
  /\ bucket \in BOOLEAN
  /\ blobs \in Listings
  /\ photo = NoPhoto

\* Lines 55-73: POST /api/photos with content type ct; the upload stores the
\* blob and publishes it, and either call may raise.
upload_photo(ct) ==
  /\ IF ~bucket
     THEN /\ photo' = PhotoResp("upload", ct, 0, 500, 0, <<>>)
          /\ UNCHANGED blobs
     ELSE IF ~IsImage(ct)
     THEN /\ photo' = PhotoResp("upload", ct, 0, 400, 0, <<>>)
          /\ UNCHANGED blobs
     ELSE \/ /\ photo' = PhotoResp("upload", ct, 0, 500, 1, <<>>)
             /\ UNCHANGED blobs
          \/ /\ Len(blobs) < MaxBlobs
             /\ \E p \in 1..(Len(blobs) + 1) :
                  blobs' = InsertAt(blobs, p, [id |-> Len(blobs) + 1, dir |-> FALSE])
             /\ \/ photo' = PhotoResp("upload", ct, 0, 500, 2, <<>>)
                \/ photo' = PhotoResp("upload", ct, 0, 200, 2, <<>>)
  /\ UNCHANGED bucket
  /\ UNCHANGED regVars

\* Lines 75-90: GET /api/photos?limit=N; the listing may raise.
list_photos(limit) ==
  /\ IF ~bucket
     THEN photo' = PhotoResp("list", [given |-> FALSE, text |-> <<>>], limit, 500, 0, <<>>)
     ELSE \/ photo' = PhotoResp("list", [given |-> FALSE, text |-> <<>>], limit, 500, 1, <<>>)
          \/ photo' = PhotoResp("list", [given |-> FALSE, text |-> <<>>], limit, 200, 1,
                                ListLoop(blobs, 1, <<>>, limit))
  /\ UNCHANGED <<bucket, blobs>>
  /\ UNCHANGED regVars

InitPhotos ==
  /\ Started
  /\ sheetId = FALSE
  /\ env = [file |-> "unset", b64 |-> "unset", json |-> "unset"]
  /\ PhotosStarted

NextPhotos ==
  \/ \E ct \in ContentTypes : upload_photo(ct)
  \/ \E limit \in Limits : list_photos(limit)

Spec == Init /\ [][Next]_vars

\* The photo endpoints alone.
SpecPhotos == InitPhotos /\ [][NextPhotos]_vars

\* Every combination of the three credential variables, over the first seconds.
SpecCreds == InitCreds /\ [][NextCreds]_vars

(***************************************************************************)
(* Properties of the registrations cache.                                  *)
(***************************************************************************)

\* Some refresh has succeeded.
Refreshed == writer.t # NoTag

\* r is between its stale observation (line 132) and its return.
Refreshing(r) == pc[r] \in {"creds", "fetch", "store", "stamp"}

\* This step is r's handler raising: the credential chain (line 136) or the
\* range read (line 137).
Raises(r) ==
  \/ pc[r] = "creds" /\ pc'[r] # "creds" /\ ~sheets_service(env).ok
  \/ pc[r] = "fetch" /\ pc'[r] = "done"

\* C1: a request made less than TTL seconds after the last successful refresh
\* (the instant its value was stored) makes no upstream call: it is never on
\* the refresh path.
C1_FreshWindowServesCache ==
  \A r \in Reqs : (Refreshed /\ Refreshing(r)) => now[r] - freshAt >= TTL

\* C2: when a refresh raises, the request answers 502, the cache value and
\* timestamp are what they were when the request came in, and the failure is
\* not cached: a request entering after it does not hit the cache.
C2_FailedRefreshKeepsCache ==
  /\ [][\A r \in Reqs :
          Raises(r) => /\ resp'[r].status = 502
                       /\ pc'[r] = "done"
                       /\ cache' = cache
                       /\ cache' = before[r]]_vars
  /\ []((lastStatus = 502 /\ LoopIdle) => ~CacheHit(clock))

\* A refresh of a populated cache has failed at the range read.
C2_Witness ==
  \E r \in Reqs : /\ pc[r] = "done"
                  /\ resp[r].status = 502
                  /\ calls[r] = 1
                  /\ Truthy(cache.data)
                  /\ cache = before[r]

\* C3: a request is served from the cache only when less than TTL seconds
\* have passed since the cached timestamp; at exactly TTL and beyond it takes
\* the refresh path, on which a request whose credential loads has made one
\* upstream read by the time the read is over.
C3_TTLBoundExclusive ==
  /\ [][\A r \in Reqs :
          (SheetConfigured /\ pc[r] = "idle" /\ pc'[r] # "idle") =>
             /\ (clock - cache.t >= TTL => pc'[r] = "creds")
             /\ (pc'[r] = "done" => /\ Truthy(cache.data)
                                    /\ clock - cache.t < TTL
                                    /\ resp'[r] = Ok(cache.data))]_vars
  /\ [](\A r \in Reqs :
          ( /\ pc[r] \in {"store", "stamp", "done"}
            /\ tried[r] # <<>>
            /\ resp[r] # FetchFailed("credential load failed") ) => calls[r] = 1)

\* A request that came in exactly TTL seconds after the cached timestamp has
\* read the sheet again.
C3_Witness ==
  \E r \in Reqs : /\ pc[r] = "store"
                  /\ calls[r] = 1
                  /\ Truthy(before[r].data)
                  /\ now[r] - before[r].t = TTL

\* C4: after a successful refresh the cached timestamp is the instant at which
\* the value was stored.
C4_StampIsStoreTime == Refreshed => cache.t = freshAt

\* C5 (as claimed): while one request has observed the cache stale and has not
\* finished, another request can enter the handler and observe the cache too.
C5_HerdWindowOpen ==
  \A r, q \in Reqs :
    (r # q /\ Refreshing(r) /\ pc[q] = "idle") => ENABLED Start(q)

\* C5 (amended): requests run one at a time; never have two requests both
\* observed the cache stale without one of them having finished.
C5_OneRefreshAtATime == Cardinality({r \in Reqs : Refreshing(r)}) <= 1

\* One request's range read is in flight on a stale cache while another
\* request is waiting to come in.
C5_Witness ==
  \E r, q \in Reqs : /\ r # q
                     /\ pc[r] = "fetch"
                     /\ pc[q] = "idle"
                     /\ ~CacheHit(clock)

\* C6: whenever a request can observe the cache (the loop is inside no
\* handler), the cached value and the cached timestamp were written by the
\* same successful refresh, and the timestamp is that refresh's.
C6_PairFromOneRefresh ==
  LoopIdle => /\ writer.t = writer.data
              /\ (Refreshed => cache.t = writer.t.at)

\* A request has been served the pair a later refresh wrote.
C6_Witness ==
  \E r \in Reqs : /\ pc[r] = "done"
                  /\ calls[r] = 0
                  /\ resp[r] = Ok(cache.data)
                  /\ writer.t = writer.data
                  /\ writer.t.at > 0

\* C7: with no spreadsheet id every request answers the empty shape, resolves
\* no credential, makes no upstream call and leaves the cache as it was at
\* process start.
C7_NoSheetIdTouchesNothing ==
  ~sheetId =>
     /\ cache = [t |-> 0, data |-> None]
     /\ \A r \in Reqs : /\ pc[r] \in {"idle", "done"}
                        /\ svc[r] = "unresolved"
                        /\ tried[r] = <<>>
                        /\ calls[r] = 0
                        /\ (pc[r] = "done" => resp[r] = Ok(EmptyShape))

\* A request has been answered without a spreadsheet id although a usable
\* credential file is configured.
C7_Witness ==
  /\ ~sheetId
  /\ env.file = "valid"
  /\ \E r \in Reqs : pc[r] = "done" /\ resp[r] = Ok(EmptyShape)

\* A variable counts as a source when it is set to a non-empty string.
IsSet(v) == v \in {"valid", "malformed"}

PriorityOrder == <<"file", "b64", "json">>

\* The highest-priority source that is set, "none" when none is.
HighestPresent(e) ==
  LET S == {i \in 1..3 : IsSet(e[PriorityOrder[i]])}
  IN  IF S = {} THEN "none"
      ELSE PriorityOrder[CHOOSE i \in S : \A j \in S : i <= j]

\* C8: the source a request's credential resolution uses is the
\* highest-priority one that is set, and it is the only one loaded.
C8_FirstPresentSourceWins ==
  \A r \in Reqs :
    svc[r] # "unresolved" =>
       /\ svc[r] = HighestPresent(env)
       /\ tried[r] = (IF svc[r] = "none" THEN <<>> ELSE <<svc[r]>>)

\* The file path has been used although the base64 variable is set as well.
C8_Witness ==
  /\ IsSet(env.file)
  /\ IsSet(env.b64)
  /\ \E r \in Reqs : pc[r] = "fetch" /\ svc[r] = "file"

\* C9: when the highest-priority source that is set fails to load, the
\* request ends with an error response, no other source is loaded, no upstream
\* call is made and the cache is unchanged.
C9_NoFallbackOnMalformed ==
  [][\A r \in Reqs :
       ( /\ pc[r] = "creds"
         /\ pc'[r] # "creds"
         /\ HighestPresent(env) # "none"
         /\ env[HighestPresent(env)] = "malformed" )
       => /\ pc'[r] = "done"
          /\ resp'[r].status = 502
          /\ tried'[r] = <<HighestPresent(env)>>
          /\ calls'[r] = 0
          /\ cache' = cache
          /\ cache' = before[r]]_vars

\* A request has failed on an unusable credential file with a usable base64
\* credential behind it.
C9_Witness ==
  /\ env.file = "malformed"
  /\ env.b64 = "valid"
  /\ \E r \in Reqs : /\ pc[r] = "done"
                     /\ resp[r].status = 502
                     /\ tried[r] = <<"file">>

\* C10: a request whose credential resolution found no source answers 500.
C10_NoCredentialsIs500 ==
  \A r \in Reqs : (pc[r] = "done" /\ svc[r] = "none") => resp[r].status = 500

\* C11: the cache payload is absent or has count = length of rows; it is
\* absent exactly until the first successful fetch has stored a value, and
\* once present it is never absent again.
C11_PayloadShapeAndLifecycle ==
  /\ [](cache.data # None => cache.data.count = Len(cache.data.rows))
  /\ [](cache.data = None <=> writer.data = NoTag)
  /\ [][cache.data # None => cache'.data # None]_vars

\* A fetch of a sheet with a header and two rows has been stored.
C11_Witness ==
  /\ cache.data # None
  /\ Refreshed
  /\ cache.data.count = 2
  /\ Len(cache.data.rows) = 2

\* C15: credential resolution happens once per process: never have two
\* requests each run the resolver.
C15_ResolvedOncePerProcess ==
  Cardinality({r \in Reqs : svc[r] # "unresolved"}) <= 1

\* C16: a request makes at most one credential resolution (one source loaded)
\* and at most one range read, and a step that raises ends the request with
\* an error response.
C16_NoRetryNoSwallow ==
  /\ [](\A r \in Reqs : calls[r] <= 1 /\ Len(tried[r]) <= 1)
  /\ [][\A r \in Reqs :
          Raises(r) => /\ pc'[r] = "done"
                       /\ resp'[r].status >= 400
                       /\ calls'[r] <= 1]_vars

\* A request has ended in an error after its one range read raised.
C16_Witness ==
  \E r \in Reqs : /\ pc[r] = "done"
                  /\ resp[r] = FetchFailed("upstream")
                  /\ calls[r] = 1
                  /\ Len(tried[r]) = 1

\* C17: every write of the cached timestamp stores a value at least as large
\* as the one it replaces.
C17_TimestampNeverDecreases == [][cache'.t >= cache.t]_vars

\* A refresh has replaced an earlier refresh's value with a later timestamp.
C17_Witness ==
  \E r \in Reqs : /\ pc[r] = "done"
                  /\ calls[r] = 1
                  /\ resp[r].status = 200
                  /\ Truthy(before[r].data)
                  /\ cache.t > before[r].t

\* The mapping the registrations fetch is to compute from an upstream
\* response: first row, the rows after it in order, and their number.
ReferenceShape(u) ==
  LET v == IF u.hasValues THEN u.values ELSE <<>>
      n == Len(v)
  IN  IF n = 0
      THEN [headers |-> <<>>, rows |-> <<>>, count |-> 0]
      ELSE [headers |-> v[1], rows |-> [i \in 1..(n - 1) |-> v[i + 1]], count |-> n - 1]

\* C12: what a successful fetch stores and returns is the reference mapping
\* of the upstream response it read.
C12_FetchMapsRows ==
  \A r \in Reqs :
    read[r] # NoRead =>
       /\ (pc[r] \in {"store", "stamp"} => out[r] = ReferenceShape(read[r]))
       /\ (pc[r] = "stamp" => cache.data = ReferenceShape(read[r]))
       /\ (pc[r] = "done" => resp[r] = Ok(ReferenceShape(read[r])))

\* A request has returned a header and two rows read from a three-row sheet.
C12_Witness ==
  \E r \in Reqs :
    /\ pc[r] = "done"
    /\ read[r] = [hasValues |-> TRUE, values |-> <<Row(1), Row(2), Row(3)>>]
    /\ resp[r] = Ok([headers |-> Row(1), rows |-> <<Row(2), Row(3)>>, count |-> 2])

\* A content type that is missing or does not start with "image/".
NonImage(ct) ==
  \/ ~ct.given
  \/ Len(ct.text) < 2
  \/ ct.text[1] # "image"
  \/ ct.text[2] # "/"

\* C13 (as claimed): an upload whose content type is missing or not an image
\* answers 400 and makes no storage call, whatever the configuration.
C13_NonImageIs400 ==
  (photo.op = "upload" /\ NonImage(photo.ct)) =>
     photo.status = 400 /\ photo.storage = 0

\* C13 (amended): an upload whose content type is missing or not an image
\* makes no storage call and leaves the bucket as it is; it answers 400 when
\* the photos bucket is configured and 500 when it is not.
C13_NonImageNoStorage ==
  /\ []((photo.op = "upload" /\ NonImage(photo.ct)) =>
          /\ photo.storage = 0
          /\ photo.status = (IF bucket THEN 400 ELSE 500))
  /\ [][(photo'.op = "upload" /\ NonImage(photo'.ct) /\ photo' # photo) =>
          blobs' = blobs]_vars

\* A text/plain upload has been refused with the bucket configured.
C13_Witness ==
  /\ bucket
  /\ photo.op = "upload"
  /\ photo.ct = [given |-> TRUE, text |-> <<"text", "/", "plain">>]
  /\ photo.status = 400
  /\ photo.storage = 0

\* The non-directory blobs of a listing, in listing order.
Files(bs) == SelectSeq(bs, LAMBDA b : ~b.dir)

\* C14: a listing answered with limit N has at most N entries (none when N is
\* zero or negative), none of them a directory blob, and they are the first
\* non-directory blobs in listing order.
C14_ListTruncatedToLimit ==
  [][(photo'.op = "list" /\ photo'.status = 200 /\ photo' # photo) =>
        /\ Len(photo'.photos) <= (IF photo'.limit < 0 THEN 0 ELSE photo'.limit)
        /\ Len(photo'.photos) <= Len(Files(blobs))
        /\ \A i \in 1..Len(photo'.photos) : photo'.photos[i] = Files(blobs)[i].id]_vars

====
